---- MODULE Spec2Model ----
(***************************************************************************)
(* StyleSense AI backend (src/main.py): the rule engine                    *)
(* build_recommendations and the /api/recommend, /api/trends and /         *)
(* handlers around it.                                                     *)
(*                                                                         *)
(* Representation of Python values                                         *)
(*   str            a sequence of text pieces.  Request text is held one   *)
(*                  character per piece, so that str.lower() and           *)
(*                  ", ".join() act on characters; a literal of the source *)
(*                  that is only ever emitted (an advisory line) is held   *)
(*                  as one piece.                                          *)
(*   Optional[T]    a sequence of length 0 (None) or 1 (the value).        *)
(*   List[T]        a sequence.                                            *)
(***************************************************************************)
EXTENDS Integers, Sequences, FiniteSets, TLC

VARIABLES
    db,          \* database.db, the process-wide storage handle: None or a handle
    store,       \* the documents held by the database, per collection
    profile,     \* the Profile last passed to build_recommendations
    rec,         \* the Recommendation last returned by build_recommendations
    response,    \* the last HTTP response
    persist,     \* how the persistence step of the last /api/recommend call went
    returned,    \* the calls /api/recommend has answered: profile, recommendation, persistence
    pc           \* which operation ran last

vars == <<db, store, profile, rec, response, persist, returned, pc>>

-----------------------------------------------------------------------------
(* Bounds *)

\* longest style_preferences list drawn from StyleTagPool
MaxPrefs == 2
\* longest accessories_pref list drawn from AccessoryPool
MaxAccessories == 2
\* number of /api/recommend calls in one behaviour
MaxCalls == 3

-----------------------------------------------------------------------------
(* Python values *)

None == <<>>
Some(v) == <<v>>
EmptyStr == <<>>
EmptyList == <<>>

\* Python's `x or default` on an Optional[str] / Optional[List]: the default
\* when x is None or empty (falsy), the value otherwise.
PyOr(x, default) == IF x = None THEN default ELSE IF x[1] = <<>> THEN default ELSE x[1]

\* Python truthiness of an Optional[List[str]]
Truthy(x) == x # None /\ x[1] # <<>>

UpperToLower ==
    [c \in {"A","B","C","D","E","F","G","H","I","J","K","L","M",
            "N","O","P","Q","R","S","T","U","V","W","X","Y","Z"} |->
        CASE c = "A" -> "a" [] c = "B" -> "b" [] c = "C" -> "c" [] c = "D" -> "d"
          [] c = "E" -> "e" [] c = "F" -> "f" [] c = "G" -> "g" [] c = "H" -> "h"
          [] c = "I" -> "i" [] c = "J" -> "j" [] c = "K" -> "k" [] c = "L" -> "l"
          [] c = "M" -> "m" [] c = "N" -> "n" [] c = "O" -> "o" [] c = "P" -> "p"
          [] c = "Q" -> "q" [] c = "R" -> "r" [] c = "S" -> "s" [] c = "T" -> "t"
          [] c = "U" -> "u" [] c = "V" -> "v" [] c = "W" -> "w" [] c = "X" -> "x"
          [] c = "Y" -> "y" [] c = "Z" -> "z"]

\* a mutant of lower: the text is compared as given
lower_identity(s) == s

\* str.lower()
lower(s) ==
    [i \in 1..Len(s) |-> IF s[i] \in DOMAIN UpperToLower THEN UpperToLower[s[i]] ELSE s[i]]

\* sep.join(xs)
RECURSIVE join(_, _)
join(sep, xs) ==
    IF xs = <<>> THEN EmptyStr
    ELSE IF Len(xs) = 1 THEN xs[1]
    ELSE xs[1] \o sep \o join(sep, Tail(xs))

\* `x in xs` on a list
In(x, xs) == \E i \in 1..Len(xs) : xs[i] = x

-----------------------------------------------------------------------------
(* String literals the engine compares against *)

cool == <<"c","o","o","l">>
warm == <<"w","a","r","m">>
fair == <<"f","a","i","r">>
light == <<"l","i","g","h","t">>
medium == <<"m","e","d","i","u","m">>
tan == <<"t","a","n">>
deep == <<"d","e","e","p">>
dark == <<"d","a","r","k">>
hourglass == <<"h","o","u","r","g","l","a","s","s">>
pear == <<"p","e","a","r">>
rectangle == <<"r","e","c","t","a","n","g","l","e">>
inverted_triangle ==
    <<"i","n","v","e","r","t","e","d","_","t","r","i","a","n","g","l","e">>
minimal == <<"m","i","n","i","m","a","l">>
streetwear == <<"s","t","r","e","e","t","w","e","a","r">>
classic == <<"c","l","a","s","s","i","c">>
edgy == <<"e","d","g","y">>
boho == <<"b","o","h","o">>
budget == <<"b","u","d","g","e","t">>
premium == <<"p","r","e","m","i","u","m">>

-----------------------------------------------------------------------------
(* The rule engine: build_recommendations *)

\* a mutant of undertone_rules: an empty undertone is taken as "no undertone
\* given" and appends nothing
undertone_rules_skip_empty(undertone) ==
    IF undertone = EmptyStr
    THEN [makeup |-> <<>>, accessories |-> <<>>]
    ELSE IF undertone = cool
    THEN [makeup |-> << <<"Choose pink or berry blushes">>,
                        <<"Opt for foundations with pink/neutral base">>,
                        <<"Silver or cool-toned highlighter">> >>,
          accessories |-> << <<"Prefer silver, platinum, or white gold jewelry">> >>]
    ELSE IF undertone = warm
    THEN [makeup |-> << <<"Peach or coral blushes flatter warm undertones">>,
                        <<"Golden highlighters and warm bronzers">>,
                        <<"Foundations with yellow/golden base">> >>,
          accessories |-> << <<"Prefer gold or rose-gold jewelry">> >>]
    ELSE [makeup |-> << <<"Neutral blush tones like rose">>,
                        <<"Neutral foundation shades with balanced undertone">> >>,
          accessories |-> << <<"Mix of gold and silver works well">> >>]

\* a mutant of undertone_rules: the three tests are separate `if`s, so the
\* final else also runs for "cool"
undertone_rules_fallthrough(undertone) ==
    LET first == IF undertone = cool
                 THEN [makeup |-> << <<"Choose pink or berry blushes">>,
                                     <<"Opt for foundations with pink/neutral base">>,
                                     <<"Silver or cool-toned highlighter">> >>,
                       accessories |-> << <<"Prefer silver, platinum, or white gold jewelry">> >>]
                 ELSE [makeup |-> <<>>, accessories |-> <<>>]
    IN  IF undertone = warm
        THEN [makeup |-> first.makeup \o
                         << <<"Peach or coral blushes flatter warm undertones">>,
                            <<"Golden highlighters and warm bronzers">>,
                            <<"Foundations with yellow/golden base">> >>,
              accessories |-> first.accessories \o << <<"Prefer gold or rose-gold jewelry">> >>]
        ELSE [makeup |-> first.makeup \o
                         << <<"Neutral blush tones like rose">>,
                            <<"Neutral foundation shades with balanced undertone">> >>,
              accessories |-> first.accessories \o << <<"Mix of gold and silver works well">> >>]

\* Makeup suggestions by undertone: what the 3-way branch appends to the
\* (still empty) makeup and accessories lists
undertone_rules(undertone) ==
    IF undertone = cool
    THEN [makeup |-> << <<"Choose pink or berry blushes">>,
                        <<"Opt for foundations with pink/neutral base">>,
                        <<"Silver or cool-toned highlighter">> >>,
          accessories |-> << <<"Prefer silver, platinum, or white gold jewelry">> >>]
    ELSE IF undertone = warm
    THEN [makeup |-> << <<"Peach or coral blushes flatter warm undertones">>,
                        <<"Golden highlighters and warm bronzers">>,
                        <<"Foundations with yellow/golden base">> >>,
          accessories |-> << <<"Prefer gold or rose-gold jewelry">> >>]
    ELSE [makeup |-> << <<"Neutral blush tones like rose">>,
                        <<"Neutral foundation shades with balanced undertone">> >>,
          accessories |-> << <<"Mix of gold and silver works well">> >>]

\* a mutant of skincare_rules: an unmatched tone falls back to the medium bucket
skincare_rules_default(tone) ==
    IF tone \in {fair, light}
    THEN << <<"Daily SPF 50 and gentle cleansers">>,
            <<"Niacinamide for tone-evening">> >>
    ELSE IF tone \in {deep, dark}
    THEN << <<"SPF 30 daily; look for no white-cast formulas">>,
            <<"Hydrating cleansers and ceramide moisturizers">> >>
    ELSE << <<"Daily SPF 30+, vitamin C serum">>,
            <<"Lightweight gel moisturizers">> >>

\* Skincare suggestions by tone
skincare_rules(tone) ==
    IF tone \in {fair, light}
    THEN << <<"Daily SPF 50 and gentle cleansers">>,
            <<"Niacinamide for tone-evening">> >>
    ELSE IF tone \in {medium, tan}
    THEN << <<"Daily SPF 30+, vitamin C serum">>,
            <<"Lightweight gel moisturizers">> >>
    ELSE IF tone \in {deep, dark}
    THEN << <<"SPF 30 daily; look for no white-cast formulas">>,
            <<"Hydrating cleansers and ceramide moisturizers">> >>
    ELSE <<>>

\* Clothing recommendations by body type
body_type_rules(btype) ==
    IF btype = hourglass
    THEN << <<"Wrap dresses and high-waisted bottoms">>,
            <<"Tailored pieces that define the waist">> >>
    ELSE IF btype = pear
    THEN << <<"A-line skirts, statement tops to balance proportions">>,
            <<"Structured jackets and darker bottoms">> >>
    ELSE IF btype = rectangle
    THEN << <<"Peplum tops, belts, and layered textures">>,
            <<"High-rise pants and cropped jackets">> >>
    ELSE IF btype = inverted_triangle
    THEN << <<"V-necklines, A-line skirts, and straight-leg pants">>,
            <<"Avoid heavy shoulder padding">> >>
    ELSE <<>>

\* the clothing line of a recognized style tag (none for any other text)
style_line(tag) ==
    IF tag = minimal THEN << <<"Monochrome looks with clean lines and tailored fits">> >>
    ELSE IF tag = streetwear THEN << <<"Relaxed silhouettes, sneakers, and graphic accents">> >>
    ELSE IF tag = classic THEN << <<"Crisp shirts, trench coats, and neutral palettes">> >>
    ELSE IF tag = edgy THEN << <<"Leather accents, metal details, and bold contrasts">> >>
    ELSE IF tag = boho THEN << <<"Flowy fabrics, earthy tones, and layered accessories">> >>
    ELSE <<>>

\* a mutant of style_rules: one pass over the list, a line per recognized entry
RECURSIVE style_rules_input_order(_)
style_rules_input_order(prefs) ==
    IF prefs = <<>> THEN <<>>
    ELSE style_line(Head(prefs)) \o style_rules_input_order(Tail(prefs))

\* Style preferences: five membership tests, in the order of the source
style_rules(prefs) ==
       (IF In(minimal, prefs) THEN style_line(minimal) ELSE <<>>)
    \o (IF In(streetwear, prefs) THEN style_line(streetwear) ELSE <<>>)
    \o (IF In(classic, prefs) THEN style_line(classic) ELSE <<>>)
    \o (IF In(edgy, prefs) THEN style_line(edgy) ELSE <<>>)
    \o (IF In(boho, prefs) THEN style_line(boho) ELSE <<>>)

\* f"Lean into {a} accessories as signature pieces"
lean_into(a) == <<"Lean into ">> \o a \o <<" accessories as signature pieces">>

\* a mutant of accessories_pref_rules: the entry is lower-cased before it is inserted
accessories_pref_rules_lowered(accessories_pref) ==
    IF Truthy(accessories_pref)
    THEN [i \in 1..Len(accessories_pref[1]) |-> lean_into(lower(accessories_pref[1][i]))]
    ELSE <<>>

\* a mutant of accessories_pref_rules: empty entries are skipped
RECURSIVE lean_nonempty(_)
lean_nonempty(xs) ==
    IF xs = <<>> THEN <<>>
    ELSE (IF Head(xs) = EmptyStr THEN <<>> ELSE <<lean_into(Head(xs))>>)
         \o lean_nonempty(Tail(xs))
accessories_pref_rules_skip_empty(accessories_pref) ==
    IF Truthy(accessories_pref) THEN lean_nonempty(accessories_pref[1]) ELSE <<>>

\* Accessories preferences: one line per entry, in input order
accessories_pref_rules(accessories_pref) ==
    IF Truthy(accessories_pref)
    THEN [i \in 1..Len(accessories_pref[1]) |-> lean_into(accessories_pref[1][i])]
    ELSE <<>>

\* Budget awareness
budget_rules(b) ==
    IF lower(PyOr(b, EmptyStr)) = budget
    THEN << <<"Focus on versatile pieces and capsule wardrobe basics">> >>
    ELSE IF lower(PyOr(b, EmptyStr)) = premium
    THEN << <<"Invest in quality staples and timeless accessories">> >>
    ELSE <<>>

\* a mutant of profile_summary: the scalars echoed are the lower-cased ones
\* the rules matched on
profile_summary_lowered(p) ==
    [body_type |-> lower(PyOr(p.body_type, EmptyStr)),
     skin_tone |-> lower(PyOr(p.skin_tone, EmptyStr)),
     undertone |-> lower(PyOr(p.undertone, EmptyStr)),
     style_preferences |-> join(<<",", " ">>, PyOr(p.style_preferences, EmptyList)),
     occasions |-> join(<<",", " ">>, PyOr(p.occasions, EmptyList)),
     budget |-> lower(PyOr(p.budget, EmptyStr))]

\* the profile_summary dict
profile_summary(p) ==
    [body_type |-> PyOr(p.body_type, EmptyStr),
     skin_tone |-> PyOr(p.skin_tone, EmptyStr),
     undertone |-> PyOr(p.undertone, EmptyStr),
     style_preferences |-> join(<<",", " ">>, PyOr(p.style_preferences, EmptyList)),
     occasions |-> join(<<",", " ">>, PyOr(p.occasions, EmptyList)),
     budget |-> PyOr(p.budget, EmptyStr)]

\* build_recommendations(profile): the four lists are built by appending, in
\* the order of the source, and returned with the summary
build_recommendations(p) ==
    LET tone == lower(PyOr(p.skin_tone, EmptyStr))
        undertone == lower(PyOr(p.undertone, EmptyStr))
        by_undertone == undertone_rules(undertone)
        btype == lower(PyOr(p.body_type, EmptyStr))
        sp == PyOr(p.style_preferences, EmptyList)
        prefs == [i \in 1..Len(sp) |-> lower(sp[i])]
    IN  [profile_summary |-> profile_summary(p),
         makeup |-> by_undertone.makeup,
         skincare |-> skincare_rules(tone),
         clothing |-> body_type_rules(btype) \o style_rules(prefs),
         accessories |-> by_undertone.accessories
                         \o accessories_pref_rules(p.accessories_pref)
                         \o budget_rules(p.budget)]

-----------------------------------------------------------------------------
(* Request values *)

Fields ==
    {"name", "body_type", "skin_tone", "undertone", "style_preferences",
     "occasions", "accessories_pref", "budget"}

\* all sequences over S of length at most n
SeqsUpTo(S, n) == UNION {[1..k -> S] : k \in 0..n}

olive == <<"o","l","i","v","e">>
mermaid == <<"m","e","r","m","a","i","d">>
luxury == <<"l","u","x","u","r","y">>
grunge == <<"g","r","u","n","g","e">>
statement == <<"s","t","a","t","e","m","e","n","t">>
delicate == <<"d","e","l","i","c","a","t","e">>
work == <<"w","o","r","k">>
Party == <<"P","a","r","t","y">>
Ann == <<"A","n","n">>

Undertones ==
    {None, Some(cool), Some(<<"C","o","o","L">>), Some(warm), Some(<<"W","A","R","M">>),
     Some(olive)}
SkinTones ==
    {None, Some(fair), Some(<<"L","i","g","h","t">>), Some(medium), Some(<<"T","A","N">>),
     Some(deep), Some(dark), Some(olive)}
BodyTypes ==
    {None, Some(hourglass), Some(<<"P","e","a","r">>), Some(rectangle),
     Some(inverted_triangle), Some(mermaid)}
Budgets ==
    {None, Some(EmptyStr), Some(budget), Some(<<"P","r","e","m","i","u","m">>), Some(luxury)}

\* style_preferences: every list of at most MaxPrefs entries of the pool, and
\* longer lists that hold all five tags, duplicates and unrecognized tags
StyleTagPool == {boho, minimal, <<"E","d","g","y">>}
StylePreferences ==
    {None}
    \cup {Some(l) : l \in SeqsUpTo(StyleTagPool, MaxPrefs)}
    \cup {Some(<<boho, edgy, classic, streetwear, minimal>>),
          Some(<<classic, grunge, <<"C","L","A","S","S","I","C">>, streetwear>>)}

\* accessories_pref: every list of at most MaxAccessories entries of the pool,
\* and a list with empty entries
AccessoryPool == {statement, delicate, <<"B","o","l","d">>}
AccessoriesPrefs ==
    {None}
    \cup {Some(l) : l \in SeqsUpTo(AccessoryPool, MaxAccessories)}
    \cup {Some(<<EmptyStr, statement, EmptyStr>>)}

Occasions == {None, Some(<<work, Party>>)}

\* the Profile values the engine is applied to: every combination of the
\* scalar fields with the lists absent or set, and every combination of the
\* lists with some of the scalar fields
EngineProfiles ==
    [name : {None},
     body_type : BodyTypes,
     skin_tone : SkinTones,
     undertone : Undertones,
     style_preferences : {None, Some(<<minimal, <<"B","O","H","O">> >>)},
     occasions : {None},
     accessories_pref : {None, Some(<<delicate>>)},
     budget : Budgets]
    \cup
    [name : {None},
     body_type : {None, Some(<<"P","e","a","r">>)},
     skin_tone : {Some(<<"T","A","N">>)},
     undertone : {None, Some(<<"C","o","o","L">>), Some(<<"W","A","R","M">>)},
     style_preferences : StylePreferences,
     occasions : Occasions,
     accessories_pref : AccessoriesPrefs,
     budget : {Some(luxury), Some(<<"P","r","e","m","i","u","m">>)}]

\* a ProfileIn with every field None
AllAbsent == [k \in Fields |-> None]

\* the ProfileIn payloads posted to /api/recommend
RequestProfiles ==
    {AllAbsent,
     [AllAbsent EXCEPT !.skin_tone = Some(deep), !.undertone = Some(warm),
                       !.body_type = Some(pear), !.style_preferences = Some(<<classic>>),
                       !.budget = Some(premium)],
     [AllAbsent EXCEPT !.name = Some(Ann), !.undertone = Some(<<"W","A","R","M">>),
                       !.style_preferences = Some(<<boho, minimal>>),
                       !.accessories_pref = Some(<<statement, delicate>>),
                       !.occasions = Some(<<work, Party>>)],
     [AllAbsent EXCEPT !.body_type = Some(mermaid), !.skin_tone = Some(olive),
                       !.budget = Some(luxury), !.undertone = Some(cool),
                       !.style_preferences = Some(EmptyList)]}

-----------------------------------------------------------------------------
(* The /api/recommend handler and its collaborators *)

\* ProfileIn.model_dump(exclude_none=True): the dict of the fields that are set
model_dump(profile_in) ==
    [k \in {f \in Fields : profile_in[f] # None} |-> profile_in[k][1]]

\* Profile(**d): every field is optional; a field the dict lacks is absent
Profile(d) == [k \in Fields |-> IF k \in DOMAIN d THEN Some(d[k]) ELSE None]

\* create_document(collection, data): the document is added to the collection
create_document(s, collection, data) ==
    [s EXCEPT ![collection] = Append(@, data)]

\* what the persistence step can do when the database is there
Outcomes == {"stored", "first_raised", "second_raised"}

NoValue == <<>>
EmptyStore == [profile |-> <<>>, recommendation |-> <<>>]

\* the try block of recommend: the store it leaves behind
persisted(profile_model, r, outcome) ==
    IF db = None THEN store
    ELSE IF outcome = "first_raised" THEN store
    ELSE IF outcome = "second_raised" THEN create_document(store, "profile", profile_model)
    ELSE create_document(create_document(store, "profile", profile_model),
                         "recommendation", r)

\* a mutant of recommend: no try/except around the persistence step, so a
\* create_document that raises becomes the response
recommend_unguarded(profile_in, outcome) ==
    /\ Len(returned) < MaxCalls
    /\ LET profile_model == Profile(model_dump(profile_in))
           r == build_recommendations(profile_model)
           raised == db # None /\ outcome # "stored"
       IN  /\ profile' = profile_model
           /\ rec' = r
           /\ persist' = IF db = None THEN "db_absent" ELSE outcome
           /\ store' = persisted(profile_model, r, outcome)
           /\ response' = IF raised THEN [status |-> 500, body |-> NoValue]
                          ELSE [status |-> 200, body |-> r]
           /\ returned' = Append(returned, [profile |-> profile_model,
                                          rec |-> IF raised THEN NoValue ELSE r,
                                          persist |-> persist'])
    /\ pc' = "recommend"
    /\ UNCHANGED db

\* a mutant of recommend: the four lists live at module level and keep the
\* lines of the calls before
recommend_accumulating(profile_in, outcome) ==
    /\ Len(returned) < MaxCalls
    /\ LET profile_model == Profile(model_dump(profile_in))
           r0 == build_recommendations(profile_model)
           r == IF rec = NoValue THEN r0
                ELSE [r0 EXCEPT !.makeup = rec.makeup \o @,
                                !.skincare = rec.skincare \o @,
                                !.clothing = rec.clothing \o @,
                                !.accessories = rec.accessories \o @]
       IN  /\ profile' = profile_model
           /\ rec' = r
           /\ persist' = IF db = None THEN "db_absent" ELSE outcome
           /\ store' = persisted(profile_model, r, outcome)
           /\ response' = [status |-> 200, body |-> r]
           /\ returned' = Append(returned, [profile |-> profile_model, rec |-> r,
                                          persist |-> persist'])
    /\ pc' = "recommend"
    /\ UNCHANGED db

\* POST /api/recommend
recommend(profile_in, outcome) ==
    /\ Len(returned) < MaxCalls
    /\ LET profile_model == Profile(model_dump(profile_in))
           r == build_recommendations(profile_model)
       IN  /\ profile' = profile_model
           /\ rec' = r
           /\ persist' = IF db = None THEN "db_absent" ELSE outcome
           /\ store' = persisted(profile_model, r, outcome)
           /\ response' = [status |-> 200, body |-> r]
           /\ returned' = Append(returned, [profile |-> profile_model, rec |-> r,
                                          persist |-> persist'])
    /\ pc' = "recommend"
    /\ UNCHANGED db

\* GET /
read_root ==
    /\ response' = [status |-> 200,
                    body |-> [message |-> "StyleSense AI backend is running"]]
    /\ pc' = "read_root"
    /\ UNCHANGED <<db, store, profile, rec, persist, returned>>

\* GET /api/trends
trends ==
    /\ response' =
         [status |-> 200,
          body |-> [makeup |-> <<"Soft Matte Lips", "Glazed Highlighter", "Monochrome Blush">>,
                    skincare |-> <<"Peptide Serums", "Ceramide Moisturizers", "SPF Tints">>,
                    fashion |-> <<"Relaxed Tailoring", "Quiet Luxury Basics", "Utility Cargo">>,
                    accessories |-> <<"Chunky Silver", "Micro Bags", "Sculptural Earrings">>]]
    /\ pc' = "trends"
    /\ UNCHANGED <<db, store, profile, rec, persist, returned>>

\* the process after import: the storage handle is there or it is not
Init ==
    /\ db \in {None, Some("db")}
    /\ store = EmptyStore
    /\ profile = NoValue
    /\ rec = NoValue
    /\ response = NoValue
    /\ persist = "none"
    /\ returned = <<>>
    /\ pc = "idle"

Next ==
    \/ \E profile_in \in RequestProfiles, outcome \in Outcomes : recommend(profile_in, outcome)
    \/ read_root
    \/ trends

Spec == Init /\ [][Next]_vars

-----------------------------------------------------------------------------
(* The engine alone, applied to one profile *)

InitEngine ==
    /\ db = None
    /\ store = EmptyStore
    /\ profile \in EngineProfiles
    /\ rec = NoValue
    /\ response = NoValue
    /\ persist = "none"
    /\ returned = <<>>
    /\ pc = "ready"

\* one call of build_recommendations(profile)
engine_call ==
    /\ pc = "ready"
    /\ rec' = build_recommendations(profile)
    /\ pc' = "built"
    /\ UNCHANGED <<db, store, profile, response, persist, returned>>

NextEngine == engine_call

SpecEngine == InitEngine /\ [][NextEngine]_vars

-----------------------------------------------------------------------------
(* The advisory lines, as the claims name them *)

CoolMakeup ==
    << <<"Choose pink or berry blushes">>,
       <<"Opt for foundations with pink/neutral base">>,
       <<"Silver or cool-toned highlighter">> >>
WarmMakeup ==
    << <<"Peach or coral blushes flatter warm undertones">>,
       <<"Golden highlighters and warm bronzers">>,
       <<"Foundations with yellow/golden base">> >>
NeutralMakeup ==
    << <<"Neutral blush tones like rose">>,
       <<"Neutral foundation shades with balanced undertone">> >>
SilverJewelry == <<"Prefer silver, platinum, or white gold jewelry">>
GoldJewelry == <<"Prefer gold or rose-gold jewelry">>
MixedJewelry == <<"Mix of gold and silver works well">>
JewelryLines == {SilverJewelry, GoldJewelry, MixedJewelry}
BodyTypeLines ==
    { <<"Wrap dresses and high-waisted bottoms">>,
      <<"Tailored pieces that define the waist">>,
      <<"A-line skirts, statement tops to balance proportions">>,
      <<"Structured jackets and darker bottoms">>,
      <<"Peplum tops, belts, and layered textures">>,
      <<"High-rise pants and cropped jackets">>,
      <<"V-necklines, A-line skirts, and straight-leg pants">>,
      <<"Avoid heavy shoulder padding">> }
\* the five recognized tags with their lines, in the fixed order
StyleTable ==
    << [tag |-> <<"m","i","n","i","m","a","l">>,
        line |-> <<"Monochrome looks with clean lines and tailored fits">>],
       [tag |-> <<"s","t","r","e","e","t","w","e","a","r">>,
        line |-> <<"Relaxed silhouettes, sneakers, and graphic accents">>],
       [tag |-> <<"c","l","a","s","s","i","c">>,
        line |-> <<"Crisp shirts, trench coats, and neutral palettes">>],
       [tag |-> <<"e","d","g","y">>,
        line |-> <<"Leather accents, metal details, and bold contrasts">>],
       [tag |-> <<"b","o","h","o">>,
        line |-> <<"Flowy fabrics, earthy tones, and layered accessories">>] >>
StyleLines == {StyleTable[i].line : i \in 1..Len(StyleTable)}
BudgetLines ==
    { <<"Focus on versatile pieces and capsule wardrobe basics">>,
      <<"Invest in quality staples and timeless accessories">> }

(* Letter case, stated apart from the engine's lower() *)

LowerToUpper ==
    [l \in {UpperToLower[u] : u \in DOMAIN UpperToLower} |->
        CHOOSE u \in DOMAIN UpperToLower : UpperToLower[u] = l]
upper(s) ==
    [i \in 1..Len(s) |-> IF s[i] \in DOMAIN LowerToUpper THEN LowerToUpper[s[i]] ELSE s[i]]
\* s and t are the same text up to letter case
SameLetters(s, t) == upper(s) = upper(t)
\* an Optional[str] read as text: None reads as the empty string
TextOf(x) == IF x = None THEN EmptyStr ELSE x[1]
\* an Optional[List[str]] read as a list: None reads as the empty list
ListOf(x) == IF x = None THEN EmptyList ELSE x[1]
\* the elements of a list
Elems(xs) == {xs[i] : i \in 1..Len(xs)}
\* how many entries of xs lie in S
CountIn(xs, S) == Cardinality({i \in 1..Len(xs) : xs[i] \in S})

Built == pc = "built"

-----------------------------------------------------------------------------
\* C1: for the profile in which every field is absent, the engine returns the
\* 2 neutral makeup lines, no skincare line, no clothing line, the single
\* 'Mix of gold and silver works well' accessory line, and a profile_summary
\* whose six values are all the empty string.
C1_AllAbsent ==
    (Built /\ \A f \in Fields : profile[f] = None) =>
        /\ rec.makeup = NeutralMakeup
        /\ rec.skincare = <<>>
        /\ rec.clothing = <<>>
        /\ rec.accessories = <<MixedJewelry>>
        /\ DOMAIN rec.profile_summary =
             {"body_type", "skin_tone", "undertone", "style_preferences", "occasions", "budget"}
        /\ \A k \in DOMAIN rec.profile_summary : rec.profile_summary[k] = EmptyStr

C1_Witness ==
    /\ Built
    /\ \A f \in Fields : profile[f] = None
    /\ Len(rec.makeup) = 2

\* C2: when undertone is "cool" in any letter case, whatever the other fields,
\* makeup is exactly the 3 cool lines, accessories holds the silver jewelry
\* line, and neither list holds a warm or neutral makeup or jewelry line.
C2_CoolBranch ==
    (Built /\ profile.undertone # None /\ SameLetters(profile.undertone[1], <<"c","o","o","l">>)) =>
        /\ rec.makeup = CoolMakeup
        /\ SilverJewelry \in Elems(rec.accessories)
        /\ (Elems(rec.makeup) \cup Elems(rec.accessories))
             \cap (Elems(WarmMakeup) \cup Elems(NeutralMakeup) \cup {GoldJewelry, MixedJewelry}) = {}

C2_Witness ==
    /\ Built
    /\ profile.undertone = Some(<<"C","o","o","L">>)
    /\ profile.accessories_pref = Some(<<statement, delicate>>)
    /\ profile.budget = Some(<<"P","r","e","m","i","u","m">>)
    /\ rec.makeup = CoolMakeup

\* C4: each recognized style tag contributes its clothing line exactly when it
\* occurs in style_preferences up to letter case, at most once, and the
\* contributed lines end the clothing list in the order minimal, streetwear,
\* classic, edgy, boho, after the body-type lines, whatever the input order.
C4_StyleOrder ==
    Built =>
        LET sp == ListOf(profile.style_preferences)
            hit(e) == \E i \in 1..Len(sp) : SameLetters(sp[i], e.tag)
            chosen == SelectSeq(StyleTable, hit)
            expected == [i \in 1..Len(chosen) |-> chosen[i].line]
            n == Len(rec.clothing) - Len(expected)
        IN  /\ n >= 0
            /\ SubSeq(rec.clothing, n + 1, Len(rec.clothing)) = expected
            /\ \A i \in 1..n : rec.clothing[i] \in BodyTypeLines

C4_Witness ==
    /\ Built
    /\ profile.style_preferences = Some(<<boho, minimal>>)
    /\ profile.body_type = Some(<<"P","e","a","r">>)
    /\ Len(rec.clothing) = 4
    /\ rec.clothing[3] = StyleTable[1].line
    /\ rec.clothing[4] = StyleTable[5].line

\* C5: accessories is the one undertone jewelry line, then one line
\* "Lean into {entry} accessories as signature pieces" per entry of
\* accessories_pref in input order with the entry verbatim, then at most one
\* budget line.
C5_AccessoriesShape ==
    Built =>
        LET ap == ListOf(profile.accessories_pref)
            n == Len(ap)
            acc == rec.accessories
        IN  /\ Len(acc) \in {n + 1, n + 2}
            /\ acc[1] \in JewelryLines
            /\ \A i \in 1..n :
                 acc[i + 1] = <<"Lean into ">> \o ap[i] \o <<" accessories as signature pieces">>
            /\ Len(acc) = n + 2 => acc[n + 2] \in BudgetLines

C5_Witness ==
    /\ Built
    /\ profile.accessories_pref = Some(<<<<"B","o","l","d">>, delicate>>)
    /\ Len(rec.accessories) = 4
    /\ rec.accessories[2] = <<"Lean into ", "B", "o", "l", "d", " accessories as signature pieces">>

\* C6: an unrecognized skin_tone gives an empty skincare list, an unrecognized
\* body_type gives no body-type clothing line, an unrecognized budget gives no
\* budget accessory line; none of the three falls back to a default bucket.
C6_Unrecognized ==
    Built =>
        /\ (\A t \in {fair, light, medium, tan, deep, dark} :
                ~SameLetters(TextOf(profile.skin_tone), t))
             => rec.skincare = <<>>
        /\ (\A t \in {hourglass, pear, rectangle, inverted_triangle} :
                ~SameLetters(TextOf(profile.body_type), t))
             => Elems(rec.clothing) \cap BodyTypeLines = {}
        /\ (\A t \in {budget, premium} : ~SameLetters(TextOf(profile.budget), t))
             => Elems(rec.accessories) \cap BudgetLines = {}

C6_Witness ==
    /\ Built
    /\ profile.skin_tone = Some(olive)
    /\ profile.body_type = Some(mermaid)
    /\ profile.budget = Some(luxury)
    /\ profile.style_preferences # None
    /\ rec.skincare = <<>>

\* the four advisory lists of a Recommendation
Lists(r) == <<r.makeup, r.skincare, r.clothing, r.accessories>>
\* an Optional[str] in upper case
UpperOpt(x) == IF x = None THEN None ELSE Some(upper(x[1]))
\* an Optional[List[str]] with every entry in upper case
UpperEach(x) == IF x = None THEN None ELSE Some([i \in 1..Len(x[1]) |-> upper(x[1][i])])
\* the profiles that differ from p in that some of undertone, skin_tone,
\* body_type, budget and the style_preferences entries are in upper case
CaseVariants(p) ==
    {[p EXCEPT !.undertone = IF "undertone" \in F THEN UpperOpt(@) ELSE @,
               !.skin_tone = IF "skin_tone" \in F THEN UpperOpt(@) ELSE @,
               !.body_type = IF "body_type" \in F THEN UpperOpt(@) ELSE @,
               !.budget = IF "budget" \in F THEN UpperOpt(@) ELSE @,
               !.style_preferences = IF "style_preferences" \in F THEN UpperEach(@) ELSE @] :
        F \in SUBSET {"undertone", "skin_tone", "body_type", "budget", "style_preferences"}}

\* C7: matching is case-insensitive: a profile that differs only in the letter
\* case of undertone, skin_tone, body_type, budget or style_preferences
\* entries gets the same makeup, skincare, clothing and accessories lists.
C7_CaseInsensitive ==
    Built => \A q \in CaseVariants(profile) : Lists(build_recommendations(q)) = Lists(rec)

C7_Witness ==
    /\ Built
    /\ profile.undertone = Some(<<"W","A","R","M">>)
    /\ profile.style_preferences = Some(<<<<"E","d","g","y">>, boho>>)
    /\ rec.makeup = WarmMakeup
    /\ Len(rec.clothing) = 2

\* C8: makeup has at most 3 lines, skincare at most 2, clothing at most 4
\* body-type lines and at most 5 style lines (at most 9 in all), and
\* accessories has 1 undertone line + len(accessories_pref) lines + at most 1
\* budget line.
C8_Sizes ==
    Built =>
        /\ Len(rec.makeup) <= 3
        /\ Len(rec.skincare) <= 2
        /\ CountIn(rec.clothing, BodyTypeLines) <= 4
        /\ CountIn(rec.clothing, StyleLines) <= 5
        /\ Len(rec.clothing) <= 9
        /\ Len(rec.accessories) - 1 - Len(ListOf(profile.accessories_pref)) \in {0, 1}

C8_Witness ==
    /\ Built
    /\ Len(rec.makeup) = 3
    /\ Len(rec.skincare) = 2
    /\ CountIn(rec.clothing, StyleLines) = 5
    /\ Len(rec.clothing) = 7
    /\ profile.accessories_pref = Some(<<EmptyStr, statement, EmptyStr>>)
    /\ Len(rec.accessories) = 5

\* where entry i of xs starts in ", ".join(xs), counted from 0
RECURSIVE JoinOffset(_, _)
JoinOffset(xs, i) == IF i = 1 THEN 0 ELSE JoinOffset(xs, i - 1) + Len(xs[i - 1]) + 2
\* s is the entries of xs in order, verbatim, with ", " between neighbours
IsCommaJoined(s, xs) ==
    IF xs = <<>> THEN s = EmptyStr
    ELSE /\ Len(s) = JoinOffset(xs, Len(xs)) + Len(xs[Len(xs)])
         /\ \A i \in 1..Len(xs) :
              /\ SubSeq(s, JoinOffset(xs, i) + 1, JoinOffset(xs, i) + Len(xs[i])) = xs[i]
              /\ i > 1 => SubSeq(s, JoinOffset(xs, i) - 1, JoinOffset(xs, i)) = <<",", " ">>

\* C9: profile_summary holds the raw values: body_type, skin_tone, undertone
\* and budget in their original case (empty string when absent), and
\* style_preferences and occasions as their original entries in input order
\* joined with ", " (empty string when absent or empty).
C9_SummaryRaw ==
    Built =>
        /\ DOMAIN rec.profile_summary =
             {"body_type", "skin_tone", "undertone", "style_preferences", "occasions", "budget"}
        /\ rec.profile_summary.body_type = TextOf(profile.body_type)
        /\ rec.profile_summary.skin_tone = TextOf(profile.skin_tone)
        /\ rec.profile_summary.undertone = TextOf(profile.undertone)
        /\ rec.profile_summary.budget = TextOf(profile.budget)
        /\ IsCommaJoined(rec.profile_summary.style_preferences, ListOf(profile.style_preferences))
        /\ IsCommaJoined(rec.profile_summary.occasions, ListOf(profile.occasions))

C9_Witness ==
    /\ Built
    /\ profile.body_type = Some(<<"P","e","a","r">>)
    /\ profile.undertone = Some(<<"W","A","R","M">>)
    /\ profile.style_preferences = Some(<<boho, minimal>>)
    /\ rec.profile_summary.body_type = <<"P","e","a","r">>
    /\ rec.profile_summary.occasions = <<"w","o","r","k",","," ","P","a","r","t","y">>
    /\ rec.profile_summary.style_preferences =
         <<"b","o","h","o",","," ","m","i","n","i","m","a","l">>

-----------------------------------------------------------------------------
\* C3: whatever the persistence step does (db absent, both documents stored,
\* the first create_document raises, the second raises), /api/recommend
\* answers normally with exactly the Recommendation build_recommendations
\* computed for the profile.
C3_PersistenceNonFatal ==
    pc = "recommend" =>
        /\ persist \in {"db_absent", "stored", "first_raised", "second_raised"}
        /\ response.status = 200
        /\ response.body = rec
        /\ rec = build_recommendations(profile)
        /\ returned[Len(returned)].rec = response.body

C3_Witness ==
    /\ pc = "recommend"
    /\ persist = "second_raised"
    /\ Len(store.profile) > Len(store.recommendation)
    /\ \E i, j \in 1..Len(returned) :
         returned[i].persist = "first_raised" /\ returned[j].persist = "stored"
    /\ response.body.makeup = WarmMakeup

\* C10: two /api/recommend calls with the same Profile are answered with equal
\* Recommendations, whatever happened between them (other profiles, other
\* endpoints, persistence stored, failed or absent).
C10_Deterministic ==
    \A i, j \in 1..Len(returned) :
        returned[i].profile = returned[j].profile => returned[i].rec = returned[j].rec

C10_Witness ==
    /\ Len(returned) = 3
    /\ returned[1].profile = returned[3].profile
    /\ returned[2].profile # returned[1].profile
    /\ returned[1].persist = "stored"
    /\ returned[2].persist = "second_raised"
    /\ returned[3].persist = "first_raised"
    /\ returned[3].rec.makeup = CoolMakeup
    /\ pc = "trends"

====
